---- MODULE Spec2Model ----
(***************************************************************************)
(* Message broker: ingress gateway (proxy/app.py), message registry        *)
(* (main_server/api.py) and delivery worker (worker/worker.py), sharing    *)
(* one Redis list "message_queue" and the registry's relational store.     *)
(***************************************************************************)
EXTENDS Integers, Sequences, FiniteSets, Bags, TLC

\* ------------------------------------------------------------------------
\* Bounds of the model
\* ------------------------------------------------------------------------
MsgIds == {"m1", "m2"}          \* message ids known to the registry's callers
Uuids == {"m1"}                 \* message ids the gateway draws (uuid4)
Bodies == {"b1", "b2"}          \* plaintext bodies
ClientIds == {"c1"}             \* client ids
ErrorTexts == {"timeout"}       \* error_message values a direct caller sends
Emails == {"u1", "u2"}          \* operator emails
Tokens == {"t1"}                \* password reset tokens (secrets.token_urlsafe)
Passwords == {"p1", "p2"}       \* operator passwords
MaxTime == 2                    \* the clock runs 1..MaxTime
MaxHours == 3                   \* the portal's clock runs 1..MaxHours
MaxSkip == 1                    \* largest skip of a listing request
MaxLimit == 2                   \* largest limit of a listing request
MaxAudit == 3                   \* cap on audit rows written by direct callers
MaxCount == 1                   \* largest attempt_count a direct caller sends
MaxIssue == 2                   \* cap on certificate_generated audit rows per client
MaxVersion == 2                 \* key versions 1..MaxVersion can be loaded

\* Worker configuration (environment driven, WorkerConfig.load_config)
max_attempts == 2               \* WORKER_MAX_ATTEMPTS
retry_interval == 1             \* WORKER_RETRY_INTERVAL
MaxConcurrency == 2             \* WORKER_CONCURRENCY is drawn from 1..MaxConcurrency

\* Gateway configuration (ProxyConfig.load_config), scaled down from 100
rate_limit_requests == 1        \* ProxyConfig.rate_limit_requests

\* ------------------------------------------------------------------------
\* Program constants
\* ------------------------------------------------------------------------
Null == <<>>                    \* a NULL column; <<t>> is the timestamp t
key_version == 1                \* EncryptionManager.key_version
reset_token_hours == 1          \* lifetime of a password reset ticket
JWT_EXPIRATION_HOURS == 24      \* lifetime of an access token
JWT_REFRESH_EXPIRATION_DAYS == 30  \* lifetime of a refresh token
max_message_length == 1000      \* ProxyConfig.max_message_length
rate_limit_window == 60         \* ProxyConfig.rate_limit_window (seconds)

QUEUED == "queued"
PROCESSING == "processing"
DELIVERED == "delivered"
FAILED == "failed"
MessageStatus == {QUEUED, PROCESSING, DELIVERED, FAILED}

ACTIVE == "active"
REVOKED == "revoked"
EXPIRED == "expired"
ClientStatus == {ACTIVE, REVOKED, EXPIRED}

HTTP_200 == "200"
HTTP_202 == "202"
HTTP_400 == "400"
HTTP_401 == "401"
HTTP_403 == "403"
HTTP_503 == "503"
HTTP_404 == "404"
HTTP_422 == "422"
HTTP_500 == "500"
NoResponse == "none"            \* the request or its response was lost

NoCall == [op |-> "none", status |-> "", attempt_count |-> 0]
NoItem == [message_id |-> "", attempt_count |-> 0]
NoRow == [status |-> "none", client_id |-> "", encrypted_body |-> <<>>,
          encryption_key_version |-> 0, attempt_count |-> 0,
          error_message |-> Null, delivered_at |-> Null]
NoTask == [pc |-> "none", message |-> NoItem, req |-> NoCall,
           resp |-> NoResponse, sleep_left |-> 0]
NoResp == [op |-> "none", message_id |-> "", code |-> NoResponse]
NoClient == [status |-> "none", revoked_at |-> Null, cert_fingerprint |-> ""]
NoUser == [password_hash |-> Null, role |-> "none", client_id |-> "",
           is_active |-> FALSE, last_login |-> Null]
NoReset == [user_id |-> "", expires_at |-> 0, used_at |-> Null]
NoToken == [sub |-> "", type |-> "", exp |-> 0]
NoTokens == [access_token |-> NoToken, refresh_token |-> NoToken]

VARIABLES
    users,        \* registry table users: email -> row or NoUser
    resets,       \* registry table password_resets: token -> row or NoReset
    encryption_manager,  \* the registry's EncryptionManager object
    clients,      \* registry table clients: client_id -> row or NoClient
    messages,     \* registry table messages: message_id -> row or NoRow
    audit,        \* registry table audit_log: a bag of entries
    queue,        \* the Redis list message_queue; index 1 is the LPUSH end
    now,          \* wall clock
    api_resp,     \* last response received by a direct caller of the API
    gw,           \* gateway: state of the submission that drew each uuid
    concurrency,  \* config.concurrency of the worker process
    running,      \* Worker.running
    loop_pc,      \* position of Worker.run
    tasks,        \* Worker.processing_tasks, by slot
    deliver_calls,\* POST /internal/messages/deliver requests sent so far, by
                  \* message_id (what the worker's log of attempts adds up to)
    bearer        \* the token pair each operator holds from the last login

vars == <<users, resets, encryption_manager, clients, messages, audit, queue, now, api_resp, gw, concurrency, running,
          loop_pc, tasks, deliver_calls, bearer>>

\* Portal tables and crypto service, which the message pipeline leaves alone
other_vars == <<users, resets, encryption_manager, deliver_calls, bearer>>

\* One slot more than the largest concurrency, so that a task set larger than
\* the configured concurrency is a state the model can write down
Slots == 1..(MaxConcurrency + 1)

\* Bodies submitted through the gateway
GwBodies == {"b1"}

\* ------------------------------------------------------------------------
\* Crypto service
\* ------------------------------------------------------------------------
\* Key material found in key files, and the version numbers in use
KeyFiles == {"k1", "k2"}
NoKey == ""
Versions == 1..MaxVersion

\* EncryptionManager(key_path, salt): key_version defaults to 1 and
\* _load_key stores the key under it and makes it the current cipher
NewEncryptionManager ==
    [keys |-> [v \in Versions |-> IF v = key_version THEN "k1" ELSE NoKey],
     key_version |-> key_version,
     cipher |-> "k1"]

\* `version in self.keys`
Loaded(em, v) == v \in DOMAIN em.keys /\ em.keys[v] # NoKey

\* self.keys.get(version, self.cipher)
KeyFor(em, v) == IF Loaded(em, v) THEN em.keys[v] ELSE em.cipher

\* _load_key: the key is stored under the version, replacing any key that
\* was there, and becomes self.cipher; self.key_version is not touched
load_key(em, k, v) == [em EXCEPT !.keys[v] = k, !.cipher = k]

add_key_version(em, k, v) == load_key(em, k, v)

\* set_current_version raises ValueError for a version that is not loaded
set_current_version(em, v) ==
    IF ~Loaded(em, v) THEN em
    ELSE [em EXCEPT !.key_version = v, !.cipher = em.keys[v]]

\* EncryptionManager.encrypt_message(plaintext, key_version): a Fernet token
\* (symbolic: the key and the plaintext) and the version reported for it.
\* kv = 0 stands for a call without key_version (None and 0 are both falsy).
em_encrypt_message(em, plaintext, kv) ==
    LET version == IF kv = 0 THEN em.key_version ELSE kv
    IN  <<[key |-> KeyFor(em, version), plain |-> plaintext], version>>

\* EncryptionManager.decrypt_message(encrypted_b64, key_version): Fernet
\* raises InvalidToken (turned into ValueError) under any other key
DecryptError == [ok |-> FALSE, value |-> ""]
em_decrypt_message(em, token, kv) ==
    IF token.key = KeyFor(em, kv)
    THEN [ok |-> TRUE, value |-> token.plain]
    ELSE DecryptError

\* The registry's call: encryption.encrypt_message(request.message_body)
encrypt_message(plaintext) ==
    em_encrypt_message(encryption_manager, plaintext, 0)

\* ------------------------------------------------------------------------
\* Queue (Redis LPUSH / BRPOP)
\* ------------------------------------------------------------------------
lpush(q, item) == <<item>> \o q
brpop_item(q) == q[Len(q)]
brpop_rest(q) == SubSeq(q, 1, Len(q) - 1)

QueueItem(m, n) == [message_id |-> m, attempt_count |-> n]

\* ------------------------------------------------------------------------
\* Registry: internal API handlers
\* ------------------------------------------------------------------------
AuditEntry(e, m) == [event_type |-> e, message_id |-> m, user_id |-> Null]
AuditAdd(a, e, m) == a (+) SetToBag({AuditEntry(e, m)})
AuditCount(e, m) == CopiesIn(AuditEntry(e, m), audit)
AuditSize == BagCardinality(audit)

\* The messages table without its unique index
UniqueViolation_off(m) == FALSE

\* Unique constraint on messages.message_id: the INSERT raises IntegrityError
UniqueViolation(m) == messages[m] # NoRow

\* A registry that marks a new row as being processed
NewMessage_processing(c, body) ==
    [status |-> PROCESSING,
     client_id |-> c,
     encrypted_body |-> encrypt_message(body)[1],
     encryption_key_version |-> encrypt_message(body)[2],
     attempt_count |-> 0,
     error_message |-> Null,
     delivered_at |-> Null]

NewMessage(c, body) ==
    [status |-> QUEUED,
     client_id |-> c,
     encrypted_body |-> encrypt_message(body)[1],
     encryption_key_version |-> encrypt_message(body)[2],
     attempt_count |-> 0,
     error_message |-> Null,
     delivered_at |-> Null]

\* Foreign key messages.client_id -> clients.client_id: the INSERT raises
\* IntegrityError when no client row has that client_id
ForeignKeyViolation(c) == clients[c] = NoClient

\* POST /internal/messages/register: status code of the response
register_response(m, c) ==
    IF UniqueViolation(m) \/ ForeignKeyViolation(c) THEN HTTP_500 ELSE HTTP_200

\* register_message leaving the enqueueing to the gateway
register_message_nopush(m, c, body, pushed) ==
    IF register_response(m, c) = HTTP_200
    THEN /\ messages' = [messages EXCEPT ![m] = NewMessage(c, body)]
         /\ audit' = AuditAdd(audit, "message_registered", m)
         /\ queue' = queue
    ELSE UNCHANGED <<messages, audit, queue>>

\* POST /internal/messages/register: effect.  pushed: the registry's own
\* Redis connection exists and its LPUSH went through.
register_message(m, c, body, pushed) ==
    IF register_response(m, c) = HTTP_200
    THEN /\ messages' = [messages EXCEPT ![m] = NewMessage(c, body)]
         /\ audit' = AuditAdd(audit, "message_registered", m)
         /\ queue' = IF pushed THEN lpush(queue, QueueItem(m, 0)) ELSE queue
    ELSE UNCHANGED <<messages, audit, queue>>

\* POST /internal/messages/deliver: status code of the response
deliver_response(m) ==
    IF messages[m] = NoRow THEN HTTP_404 ELSE HTTP_200

\* POST /internal/messages/deliver: effect
deliver_message(m) ==
    IF deliver_response(m) = HTTP_200
    THEN /\ messages' = [messages EXCEPT ![m].status = DELIVERED,
                                         ![m].delivered_at = <<now>>]
         /\ audit' = AuditAdd(audit, "message_delivered", m)
    ELSE UNCHANGED <<messages, audit>>

\* update_message_status refusing to leave a terminal status
update_status_response_strict(m, s, n) ==
    IF n < 0 THEN HTTP_422
    ELSE IF messages[m] = NoRow THEN HTTP_404
    ELSE IF s \notin MessageStatus THEN HTTP_500
    ELSE IF messages[m].status \in {DELIVERED, FAILED} THEN HTTP_400
    ELSE HTTP_200

\* PUT /internal/messages/{message_id}/status: status code of the response
update_status_response(m, s, n) ==
    IF n < 0 THEN HTTP_422
    ELSE IF messages[m] = NoRow THEN HTTP_404
    ELSE IF s \notin MessageStatus THEN HTTP_500
    ELSE HTTP_200

\* PUT /internal/messages/{message_id}/status: effect.  err is
\* request.error_message: it labels a metric and is not written to the row.
update_message_status(m, s, n, err) ==
    /\ UNCHANGED audit
    /\ IF update_status_response(m, s, n) = HTTP_200
       THEN messages' = [messages EXCEPT ![m].status = s,
                                         ![m].attempt_count = n]
       ELSE UNCHANGED messages

\* ------------------------------------------------------------------------
\* Registry: admin API for client certificates
\* ------------------------------------------------------------------------
\* A client row as generate_certificate creates it: cert_fingerprint is ""
\* for every such row
NewClient == [status |-> ACTIVE, revoked_at |-> Null, cert_fingerprint |-> ""]

\* A client row provisioned with its certificate: the fingerprint of the
\* certificate issued to c, written as c
Provisioned(c) == [NewClient EXCEPT !.cert_fingerprint = c]

\* Column(unique=True) on Client.cert_fingerprint: a row holds fp already
FingerprintTaken(fp) ==
    \E d \in DOMAIN clients :
       clients[d] # NoClient /\ clients[d].cert_fingerprint = fp

\* generate_certificate without its test for an active certificate
AlreadyActive_off(c) == FALSE

\* `if client: if client.status == ClientStatus.ACTIVE`
AlreadyActive(c) == clients[c] # NoClient /\ clients[c].status = ACTIVE

\* POST /admin/certificates/generate: status code of the response
generate_certificate_response(c) ==
    IF AlreadyActive(c) THEN HTTP_400
    ELSE IF clients[c] = NoClient /\ FingerprintTaken(NewClient.cert_fingerprint)
    THEN HTTP_500
    ELSE HTTP_200

\* POST /admin/certificates/generate: effect.  A row is created only when
\* none exists; an existing row that is not ACTIVE is left as it is.
generate_certificate(c) ==
    IF generate_certificate_response(c) = HTTP_200
    THEN /\ clients' = IF clients[c] = NoClient
                       THEN [clients EXCEPT ![c] = NewClient]
                       ELSE clients
         /\ audit' = AuditAdd(audit, "certificate_generated", c)
    ELSE UNCHANGED <<clients, audit>>

\* revoke_certificate without its test for an already revoked client
AlreadyRevoked_off(c) == FALSE

\* `if client.status == ClientStatus.REVOKED`
AlreadyRevoked(c) == clients[c].status = REVOKED

\* POST /admin/certificates/revoke: status code of the response
revoke_certificate_response(c) ==
    IF clients[c] = NoClient THEN HTTP_404
    ELSE IF AlreadyRevoked(c) THEN HTTP_400
    ELSE HTTP_200

\* POST /admin/certificates/revoke: effect
revoke_certificate(c) ==
    IF revoke_certificate_response(c) = HTTP_200
    THEN /\ clients' = [clients EXCEPT ![c].status = REVOKED,
                                       ![c].revoked_at = <<now>>]
         /\ audit' = AuditAdd(audit, "certificate_revoked", c)
    ELSE UNCHANGED <<clients, audit>>

\* ------------------------------------------------------------------------
\* Initial state
\* ------------------------------------------------------------------------

\* No operator and no reset ticket yet; the crypto service as constructed
InitOther ==
    /\ users = [e \in Emails |-> NoUser]
    /\ resets = [t \in Tokens |-> NoReset]
    /\ encryption_manager = NewEncryptionManager
    /\ deliver_calls = [m \in MsgIds |-> 0]
    /\ bearer = [e \in Emails |-> NoTokens]

\* The pipeline with its clients provisioned and no submission made yet
Init ==
    /\ InitOther
    /\ clients = [c \in ClientIds |-> NewClient]
    /\ messages = [m \in MsgIds |-> NoRow]
    /\ audit = EmptyBag
    /\ queue = <<>>
    /\ now = 1
    /\ api_resp = NoResp
    /\ gw = [m \in Uuids |-> "new"]
    /\ concurrency \in 1..MaxConcurrency
    /\ running = TRUE
    /\ loop_pc = "pop"
    /\ tasks = [s \in Slots |-> NoTask]

\* Time passes: the wall clock advances (it stops at MaxTime) and every
\* pending asyncio.sleep(retry_interval) gets one unit closer to its end.
Sleeping(ts) == {s \in Slots : ts[s] # NoTask /\ ts[s].pc = "sleep" /\ ts[s].sleep_left > 0}

Tick ==
    /\ now < MaxTime \/ Sleeping(tasks) # {}
    /\ now' = IF now < MaxTime THEN now + 1 ELSE now
    /\ tasks' = [s \in Slots |->
                    IF s \in Sleeping(tasks)
                    THEN [tasks[s] EXCEPT !.sleep_left = @ - 1]
                    ELSE tasks[s]]
    /\ UNCHANGED <<clients, messages, audit, queue, api_resp, gw, concurrency, other_vars,
                   running, loop_pc>>

\* ------------------------------------------------------------------------
\* Direct callers of the internal API
\* ------------------------------------------------------------------------
Response(op, m, code) == [op |-> op, message_id |-> m, code |-> code]

ApiRegister(m, c, body, pushed) ==
    /\ AuditSize < MaxAudit
    /\ register_message(m, c, body, pushed)
    /\ api_resp' = Response("register", m, register_response(m, c))
    /\ UNCHANGED <<clients, now, gw, concurrency, other_vars, running, loop_pc, tasks>>

ApiDeliver(m) ==
    /\ AuditSize < MaxAudit
    /\ deliver_message(m)
    /\ api_resp' = Response("deliver", m, deliver_response(m))
    /\ UNCHANGED <<clients, queue, now, gw, concurrency, other_vars, running, loop_pc,
                   tasks>>

ApiUpdateStatus(m, s, n, err) ==
    /\ update_message_status(m, s, n, err)
    /\ api_resp' = Response("update_status", m, update_status_response(m, s, n))
    /\ UNCHANGED <<clients, queue, now, gw, concurrency, other_vars, running, loop_pc,
                   tasks>>

NextApi ==
    \/ \E m \in MsgIds, c \in ClientIds, body \in Bodies, pushed \in BOOLEAN :
          ApiRegister(m, c, body, pushed)
    \/ \E m \in MsgIds : ApiDeliver(m)
    \/ \E m \in MsgIds, s \in MessageStatus \cup {"bogus"}, n \in -1..MaxCount,
          err \in ErrorTexts :
          ApiUpdateStatus(m, s, n, err)
    \/ Tick

\* The registry on its own: no worker configuration is varied
InitApi == Init /\ concurrency = 1

SpecApi == InitApi /\ [][NextApi]_vars

\* POST /internal/messages/register when the second db.commit() raises: the
\* row is committed, the audit entry is rolled back, nothing is pushed and
\* the except clause answers 500
ApiRegisterAuditFails(m, c, body) ==
    /\ register_response(m, c) = HTTP_200
    /\ messages' = [messages EXCEPT ![m] = NewMessage(c, body)]
    /\ api_resp' = Response("register", m, HTTP_500)
    /\ UNCHANGED <<audit, queue, clients, now, gw, concurrency, other_vars,
                   running, loop_pc, tasks>>

NextReg ==
    \/ \E m \in MsgIds, c \in ClientIds, body \in Bodies, pushed \in BOOLEAN :
          ApiRegister(m, c, body, pushed)
    \/ \E m \in MsgIds, c \in ClientIds, body \in Bodies :
          ApiRegisterAuditFails(m, c, body)
    \/ \E m \in MsgIds : ApiDeliver(m)

\* The registry with a store that can fail between two commits
SpecReg == InitApi /\ [][NextReg]_vars

\* ------------------------------------------------------------------------
\* Ingress gateway: POST /api/v1/messages
\* ------------------------------------------------------------------------
NoValue == ""                   \* an absent header or query parameter
NoCert == [common_name |-> NoValue, verified |-> FALSE]

Digits == {"0", "1", "2", "3", "4", "5", "6", "7", "8", "9"}

\* sender_number values, as sequences of characters
Senders ==
    { <<"+", "1", "2">>,
      <<"+", "1", "2", "\n">>,
      <<"1", "2", "3">>,
      <<"+", "0", "1">>,
      <<"+", "1">>,
      <<"+", "1", "x">>,
      [i \in 1..17 |-> IF i = 1 THEN "+" ELSE "1"] }

\* message_body values: an ordinary body, the empty string, a blank one and
\* a token for a body of max_message_length + 1 characters
SubmittedBodies == GwBodies \cup {"", " ", "long"}

strip(v) == IF v = " " THEN "" ELSE v

len(v) ==
    CASE v = "" -> 0
      [] v = " " -> 1
      [] v = "long" -> max_message_length + 1
      [] OTHER -> 2

\* re.match(r"^\+[1-9]\d{1,14}$", v); $ also matches before a final newline
validate_phone_number(v) ==
    LET n == IF Len(v) > 0 /\ v[Len(v)] = "\n" THEN Len(v) - 1 ELSE Len(v)
    IN  /\ n >= 3
        /\ n <= 16
        /\ v[1] = "+"
        /\ v[2] \in Digits \ {"0"}
        /\ \A i \in 3..n : v[i] \in Digits

validate_message_body(v) ==
    /\ ~(v = "" \/ strip(v) = "")
    /\ ~(len(v) > max_message_length)

\* A gateway that parses the body without running the validators
ValidSubmission_off(req) == TRUE

\* MessageSubmission: pydantic runs both validators before the handler body
ValidSubmission(req) ==
    /\ validate_phone_number(req.sender_number)
    /\ validate_message_body(req.message_body)

\* A request to POST /api/v1/messages.  peer_cert: the TLS layer verified a
\* client certificate on this connection (the handler has no access to it).
Requests ==
    [peer_cert : BOOLEAN,
     header_cn : ClientIds \cup {NoValue},
     query_client_id : ClientIds \cup {NoValue},
     sender_number : Senders,
     message_body : SubmittedBodies]

\* Header X-Client-Cert-CN first, then the client_id query parameter
extract_client_certificate(req) ==
    IF req.header_cn # NoValue
    THEN [common_name |-> req.header_cn, verified |-> TRUE]
    ELSE IF req.query_client_id # NoValue
    THEN [common_name |-> req.query_client_id, verified |-> TRUE]
    ELSE NoCert

\* <<is_valid, client_id>>; the clients table is not consulted
validate_client_certificate(cert_info) ==
    IF cert_info = NoCert THEN <<FALSE, NoValue>>
    ELSE IF ~cert_info.verified THEN <<FALSE, NoValue>>
    ELSE <<TRUE, cert_info.common_name>>

\* RedisQueue.enqueue: LPUSH, then LLEN for the gauge, inside one try.
\* outcome "ok": both went through; "down": LPUSH did not reach Redis;
\* "pushed": LPUSH was applied and its reply or the LLEN raised.
EnqueueOutcomes == {"ok", "down", "pushed"}
enqueue(q, item, outcome) == IF outcome = "down" THEN q ELSE lpush(q, item)
enqueue_result(outcome) == outcome = "ok"

\* submit_message up to the enqueue: validation (422), certificate (401),
\* message_id = uuid4(), RedisQueue.enqueue (503 when it returns False)
SubmitEnqueue(m, req, outcome) ==
    /\ gw[m] = "new"
    /\ IF ~ValidSubmission(req)
       THEN /\ queue' = queue
            /\ gw' = [gw EXCEPT ![m] = HTTP_422]
       ELSE IF ~validate_client_certificate(extract_client_certificate(req))[1]
       THEN /\ queue' = queue
            /\ gw' = [gw EXCEPT ![m] = HTTP_401]
       ELSE /\ queue' = enqueue(queue, QueueItem(m, 0), outcome)
            /\ gw' = [gw EXCEPT ![m] = IF enqueue_result(outcome)
                                       THEN "enqueued" ELSE HTTP_503]
    /\ UNCHANGED <<clients, messages, audit, now, api_resp, concurrency, other_vars,
                   running, loop_pc, tasks>>

\* A handler that gives up when the registration did not succeed
AfterRegister_strict(registered) == IF registered THEN HTTP_202 ELSE HTTP_500

\* `if not registered: logger.warning(...)`, then 202 Accepted either way
AfterRegister(registered) == HTTP_202

\* MainServerClient.register_message (best effort), then the response.
\* reached: the request got to the registry and its handler ran.
SubmitRegister(m, c, body, reached, pushed) ==
    /\ gw[m] = "enqueued"
    /\ IF reached
       THEN register_message(m, c, body, pushed)
       ELSE UNCHANGED <<messages, audit, queue>>
    /\ gw' = [gw EXCEPT ![m] =
                 AfterRegister(reached /\ register_response(m, c) = HTTP_200)]
    /\ UNCHANGED <<clients, now, api_resp, concurrency, other_vars, running, loop_pc,
                   tasks>>

\* ------------------------------------------------------------------------
\* Administrators: certificate operations next to the gateway's traffic
\* ------------------------------------------------------------------------
AdminGenerate(c) ==
    /\ AuditCount("certificate_generated", c) < MaxIssue
    /\ generate_certificate(c)
    /\ api_resp' = Response("generate", c, generate_certificate_response(c))
    /\ UNCHANGED <<messages, queue, now, gw, concurrency, other_vars, running, loop_pc,
                   tasks>>

AdminRevoke(c) ==
    /\ revoke_certificate(c)
    /\ api_resp' = Response("revoke", c, revoke_certificate_response(c))
    /\ UNCHANGED <<messages, queue, now, gw, concurrency, other_vars, running, loop_pc,
                   tasks>>

NextGw ==
    \/ \E m \in MsgIds, req \in Requests, outcome \in EnqueueOutcomes :
          SubmitEnqueue(m, req, outcome)
    \/ \E m \in MsgIds, c \in ClientIds, body \in GwBodies,
          reached \in BOOLEAN, pushed \in BOOLEAN :
          SubmitRegister(m, c, body, reached, pushed)
    \/ \E c \in ClientIds : AdminGenerate(c)
    \/ \E c \in ClientIds : AdminRevoke(c)
    \/ Tick

\* The gateway and the registry from an empty clients table, no worker
\* process started, every message id available to the gateway
InitGw ==
    /\ InitOther
    /\ clients = [c \in ClientIds |-> NoClient]
    /\ messages = [m \in MsgIds |-> NoRow]
    /\ audit = EmptyBag
    /\ queue = <<>>
    /\ now = 1
    /\ api_resp = NoResp
    /\ gw = [m \in MsgIds |-> "new"]
    /\ concurrency = 1
    /\ running = TRUE
    /\ loop_pc = "pop"
    /\ tasks = [s \in Slots |-> NoTask]

SpecGw == InitGw /\ [][NextGw]_vars

\* ------------------------------------------------------------------------
\* Crypto service on its own: key rotation around one encrypted body
\* ------------------------------------------------------------------------
\* What the caller holds: the body, the token and version encrypt_message
\* returned for it, and the outcome of the last decrypt_message on it
NoRead == [ok |-> FALSE, value |-> "none"]
Encrypted(b, pair) ==
    [op |-> "crypto", plaintext |-> b, token |-> pair[1], version |-> pair[2],
     read_version |-> 0, read |-> NoRead]

AddKeyVersion(k, v) ==
    /\ encryption_manager' = add_key_version(encryption_manager, k, v)
    /\ UNCHANGED <<users, resets, clients, messages, audit, queue, now,
                   api_resp, gw, concurrency, running, loop_pc, tasks,
                   deliver_calls, bearer>>

SetCurrentVersion(v) ==
    /\ encryption_manager' = set_current_version(encryption_manager, v)
    /\ UNCHANGED <<users, resets, clients, messages, audit, queue, now,
                   api_resp, gw, concurrency, running, loop_pc, tasks,
                   deliver_calls, bearer>>

Encrypt(b, kv) ==
    /\ api_resp' = Encrypted(b, em_encrypt_message(encryption_manager, b, kv))
    /\ UNCHANGED <<users, resets, encryption_manager, clients, messages,
                   audit, queue, now, gw, concurrency, running, loop_pc,
                   tasks,
                   deliver_calls, bearer>>

Decrypt(kv) ==
    /\ api_resp.op = "crypto"
    /\ api_resp' =
          [api_resp EXCEPT
             !.read_version = kv,
             !.read = em_decrypt_message(encryption_manager, api_resp.token, kv)]
    /\ UNCHANGED <<users, resets, encryption_manager, clients, messages,
                   audit, queue, now, gw, concurrency, running, loop_pc,
                   tasks,
                   deliver_calls, bearer>>

NextEnc ==
    \/ \E k \in KeyFiles, v \in Versions : AddKeyVersion(k, v)
    \/ \E v \in Versions : SetCurrentVersion(v)
    \/ \E b \in Bodies, kv \in 0..MaxVersion : Encrypt(b, kv)
    \/ \E kv \in 1..(MaxVersion + 1) : Decrypt(kv)

SpecEnc == InitApi /\ [][NextEnc]_vars

\* ------------------------------------------------------------------------
\* Operators of the portal (main_server/api.py, main_server/admin_cli.py)
\* ------------------------------------------------------------------------
\* The clock of this part counts hours; an operator's email stands for the
\* row's id, and a row that has issued no token has last_login null.
ADMIN == "admin"
USER == "user"
USER_MANAGER == "user_manager"
UserRole == {ADMIN, USER, USER_MANAGER}

\* Names that main_server/api.py defines or imports, among those the
\* password handlers call
ApiNames == {"verify_password", "get_password_hash", "AuditLog",
             "PasswordReset", "User"}
NameError(name) == name \notin ApiNames

\* bcrypt over the first 72 bytes of the password; the passwords of the
\* model are shorter than that
get_password_hash(p) == <<"bcrypt", p>>
verify_password(p, h) == h = <<"bcrypt", p>>

NewUser(pw, role, cid) ==
    [password_hash |-> get_password_hash(pw), role |-> role,
     client_id |-> cid, is_active |-> TRUE, last_login |-> Null]

\* An audit_log row written on behalf of operator u
OperatorAuditEntry(e, m, u) ==
    [event_type |-> e, message_id |-> m, user_id |-> <<u>>]
OperatorAuditAdd(a, e, m, u) == a (+) SetToBag({OperatorAuditEntry(e, m, u)})

\* who: the email or the reset token the request carries, or the operator
\* its bearer token was issued to
PortalResponse(op, who, r) ==
    [op |-> op, email |-> who, code |-> r.code, detail |-> r.detail]
Reply(code, detail) == [code |-> code, detail |-> detail]

\* An hour passes
Hour ==
    /\ now < MaxHours
    /\ now' = now + 1
    /\ UNCHANGED <<users, resets, encryption_manager, clients, messages,
                   audit, queue, api_resp, gw, concurrency, running, loop_pc,
                   tasks,
                   deliver_calls, bearer>>

\* admin_cli user create: nothing happens if the email is taken or the
\* client the operator is to be bound to does not exist ("": no binding)
CliUserCreate(e, pw, role, cid) ==
    /\ users[e] = NoUser
    /\ cid # "" => clients[cid] # NoClient
    /\ users' = [users EXCEPT ![e] = NewUser(pw, role, cid)]
    /\ UNCHANGED <<resets, encryption_manager, clients, messages, audit,
                   queue, now, api_resp, gw, concurrency, running, loop_pc,
                   tasks,
                   deliver_calls, bearer>>

\* POST /portal/auth/login: status code and body of the response
portal_login_response_distinct(e, pw) ==
    IF users[e] = NoUser
    THEN Reply(HTTP_404, "User not found")
    ELSE IF ~verify_password(pw, users[e].password_hash)
    THEN Reply(HTTP_401, "Incorrect email or password")
    ELSE IF ~users[e].is_active
    THEN Reply(HTTP_403, "Account is inactive")
    ELSE Reply(HTTP_200, "LoginResponse")
portal_login_response(e, pw) ==
    IF users[e] = NoUser \/ ~verify_password(pw, users[e].password_hash)
    THEN Reply(HTTP_401, "Incorrect email or password")
    ELSE IF ~users[e].is_active
    THEN Reply(HTTP_403, "Account is inactive")
    ELSE Reply(HTTP_200, "LoginResponse")

\* create_access_token: a JWT signed with JWT_SECRET, by its claims.  The
\* access token carries no "type" claim.
create_access_token(u, type, lifetime) ==
    [sub |-> u, type |-> type, exp |-> now + lifetime]
LoginTokens(u) ==
    [access_token |-> create_access_token(u, "", JWT_EXPIRATION_HOURS),
     refresh_token |-> create_access_token(u, "refresh",
                                           24 * JWT_REFRESH_EXPIRATION_DAYS)]

PortalLogin(e, pw) ==
    /\ api_resp' = PortalResponse("login", e, portal_login_response(e, pw))
    /\ users' = IF portal_login_response(e, pw).code = HTTP_200
                THEN [users EXCEPT ![e].last_login = <<now>>]
                ELSE users
    /\ bearer' = IF portal_login_response(e, pw).code = HTTP_200
                 THEN [bearer EXCEPT ![e] = LoginTokens(e)]
                 ELSE bearer
    /\ UNCHANGED <<resets, encryption_manager, clients, messages, audit,
                   queue, now, gw, concurrency, running, loop_pc, tasks,
                   deliver_calls>>

\* decode_access_token: the payload, or none for an expired token (every
\* token of the model carries the server's signature)
decode_access_token(token) == IF token.exp <= now THEN NoToken ELSE token

\* Depends(get_current_user) for the bearer token presented: `if not
\* payload`, `if not user_id`, `if not user`, `if not user.is_active`
bearer_response(token) ==
    IF decode_access_token(token) = NoToken
    THEN Reply(HTTP_401, "Invalid or expired token")
    ELSE IF token.sub = ""
    THEN Reply(HTTP_401, "Invalid token payload")
    ELSE IF users[token.sub] = NoUser
    THEN Reply(HTTP_401, "User not found")
    ELSE IF ~users[token.sub].is_active
    THEN Reply(HTTP_403, "User account is inactive")
    ELSE Reply(HTTP_200, "User")

\* GET /portal/profile with the access or the refresh token of the
\* operator's last login as bearer credential
GetProfile(u, kind) ==
    /\ bearer[u] # NoTokens
    /\ api_resp' = PortalResponse("profile", u, bearer_response(bearer[u][kind]))
    /\ users' = IF bearer_response(bearer[u][kind]).code = HTTP_200
                THEN [users EXCEPT ![u].last_login = <<now>>]
                ELSE users
    /\ UNCHANGED <<resets, encryption_manager, clients, messages, audit,
                   queue, now, gw, concurrency, running, loop_pc, tasks,
                   deliver_calls, bearer>>

\* Depends(get_current_user) for a bearer token issued to operator u
get_current_user_response(u) ==
    IF users[u] = NoUser \/ users[u].last_login = Null
    THEN Reply(HTTP_401, "User not found")
    ELSE IF ~users[u].is_active
    THEN Reply(HTTP_403, "User account is inactive")
    ELSE Reply(HTTP_200, "User")
get_current_user(u) ==
    IF get_current_user_response(u).code = HTTP_200
    THEN [users EXCEPT ![u].last_login = <<now>>]
    ELSE users

\* Depends(require_admin)
require_admin_response(u) ==
    IF get_current_user_response(u).code # HTTP_200
    THEN get_current_user_response(u)
    ELSE IF users[u].role # ADMIN
    THEN Reply(HTTP_403, "Admin access required")
    ELSE Reply(HTTP_200, "User")

\* POST /admin/users; cid is request.client_id ("": none)
create_user_response(u, e, cid) ==
    IF require_admin_response(u).code # HTTP_200
    THEN require_admin_response(u)
    ELSE IF users[e] # NoUser
    THEN Reply(HTTP_400, "Email already registered")
    ELSE IF cid # "" /\ clients[cid] = NoClient
    THEN Reply(HTTP_400, "Client not found")
    ELSE Reply(HTTP_200, "UserResponse")

CreateUser(u, e, pw, role, cid) ==
    /\ AuditSize < MaxAudit
    /\ api_resp' = PortalResponse("create_user", u, create_user_response(u, e, cid))
    /\ IF create_user_response(u, e, cid).code = HTTP_200
       THEN /\ users' = [get_current_user(u) EXCEPT ![e] = NewUser(pw, role, cid)]
            /\ audit' = OperatorAuditAdd(audit, "user_created", e, u)
       ELSE /\ users' = get_current_user(u)
            /\ audit' = audit
    /\ UNCHANGED <<resets, encryption_manager, clients, messages, queue, now,
                   gw, concurrency, running, loop_pc, tasks,
                   deliver_calls, bearer>>

\* POST /portal/auth/forgot-password; t is the value of secrets.token_urlsafe
GenericReply ==
    Reply(HTTP_200, "If your email is registered, you will receive a reset link shortly.")
ForgotPassword(e, t) ==
    /\ resets[t] = NoReset
    /\ api_resp' = PortalResponse("forgot_password", e, GenericReply)
    /\ resets' = IF users[e] = NoUser
                 THEN resets
                 ELSE [resets EXCEPT ![t] = [user_id |-> e,
                                             expires_at |-> now + reset_token_hours,
                                             used_at |-> Null]]
    /\ UNCHANGED <<users, encryption_manager, clients, messages, audit, queue,
                   now, gw, concurrency, running, loop_pc, tasks,
                   deliver_calls, bearer>>

\* PasswordReset.is_valid
is_valid_off(r) == TRUE
is_valid(r) == r.used_at = Null /\ ~(r.expires_at < now)

\* POST /portal/auth/reset-password: status code and body of the response
reset_password_response(t) ==
    IF resets[t] = NoReset \/ ~is_valid(resets[t])
    THEN Reply(HTTP_400, "Invalid or expired reset token")
    ELSE IF users[resets[t].user_id] = NoUser
    THEN Reply(HTTP_404, "User not found")
    ELSE IF NameError("hash_password") \/ NameError("AuditSeverity")
    THEN Reply(HTTP_500, "Internal Server Error")
    ELSE Reply(HTTP_200, "Password has been successfully reset.")

ResetPassword(t, pw) ==
    /\ AuditSize < MaxAudit
    /\ api_resp' = PortalResponse("reset_password", t, reset_password_response(t))
    /\ IF reset_password_response(t).code = HTTP_200
       THEN /\ users' = [users EXCEPT ![resets[t].user_id].password_hash =
                                           get_password_hash(pw)]
            /\ resets' = [resets EXCEPT ![t].used_at = <<now>>]
            /\ audit' = OperatorAuditAdd(audit, "password_reset_confirm",
                                         resets[t].user_id, resets[t].user_id)
       ELSE UNCHANGED <<users, resets, audit>>
    /\ UNCHANGED <<encryption_manager, clients, messages, queue, now, gw,
                   concurrency, running, loop_pc, tasks,
                   deliver_calls, bearer>>

\* admin_cli user delete: db.delete(user) with User.audit_logs cascading
\* "all, delete-orphan", and password_resets.user_id ON DELETE CASCADE.  The
\* tokens issued to the row name an id that is never used again.
ReferencedBy(u) == {x \in DOMAIN audit : x.user_id = <<u>>}
delete_audit_logs(u) == [x \in (DOMAIN audit) \ ReferencedBy(u) |-> audit[x]]
CliUserDelete(e) ==
    /\ users[e] # NoUser
    /\ users' = [users EXCEPT ![e] = NoUser]
    /\ audit' = delete_audit_logs(e)
    /\ resets' = [t \in Tokens |-> IF resets[t].user_id = e THEN NoReset
                                   ELSE resets[t]]
    /\ bearer' = [bearer EXCEPT ![e] = NoTokens]
    /\ UNCHANGED <<encryption_manager, clients, messages, queue, now,
                   api_resp, gw, concurrency, running, loop_pc, tasks,
                   deliver_calls>>

NextAuth ==
    \/ Hour
    \/ \E e \in Emails, pw \in Passwords : CliUserCreate(e, pw, ADMIN, "")
    \/ \E e \in Emails, pw \in Passwords : PortalLogin(e, pw)
    \/ \E u, e \in Emails, pw \in Passwords : CreateUser(u, e, pw, USER, "")
    \/ \E e \in Emails, t \in Tokens : ForgotPassword(e, t)
    \/ \E t \in Tokens, pw \in Passwords : ResetPassword(t, pw)
    \/ \E e \in Emails : CliUserDelete(e)
    \/ \E u \in Emails, kind \in {"access_token", "refresh_token"} :
          GetProfile(u, kind)

SpecAuth == InitApi /\ [][NextAuth]_vars

\* ------------------------------------------------------------------------
\* Portal: message listing and certificate management by operators
\* ------------------------------------------------------------------------
PortalClients == {"c1", "c2"}
Bindings == PortalClients \cup {""}
Admins == {"u1"}                \* emails given to administrators
Staff == Emails \ Admins        \* emails given to the other operators
StatusFilters == {"", QUEUED, "bogus"}
Skips == 0..MaxSkip
Limits == 1..MaxLimit

\* The orders in which ORDER BY created_at DESC can return the rows: the
\* model keeps no created_at, and rows inserted within one second of each
\* other have no defined order
Orders == {o \in [1..Cardinality(MsgIds) -> MsgIds] :
              \A i, j \in DOMAIN o : o[i] = o[j] => i = j}

\* `if current_user.role != UserRole.ADMIN` with its two filters
Visible_off(u) == {m \in MsgIds : messages[m] # NoRow}
Visible(u) ==
    IF users[u].role # ADMIN
    THEN IF users[u].client_id # ""
         THEN {m \in MsgIds : /\ messages[m] # NoRow
                              /\ messages[m].client_id = users[u].client_id}
         ELSE {}
    ELSE {m \in MsgIds : messages[m] # NoRow}

Filtered(u, sf) ==
    IF sf = "" THEN Visible(u)
    ELSE {m \in Visible(u) : messages[m].status = sf}

Min(a, b) == IF a < b THEN a ELSE b
Page(rows, skip, limit) == SubSeq(rows, skip + 1, Min(Len(rows), skip + limit))

message_body(u, m) ==
    IF users[u].role # ADMIN THEN ""
    ELSE IF em_decrypt_message(encryption_manager, messages[m].encrypted_body,
                               messages[m].encryption_key_version).ok
    THEN em_decrypt_message(encryption_manager, messages[m].encrypted_body,
                            messages[m].encryption_key_version).value
    ELSE "[decryption failed]"

MessageResponse(u, m) ==
    [message_id |-> m, client_id |-> messages[m].client_id,
     status |-> messages[m].status, message_body |-> message_body(u, m)]

\* GET /portal/messages: the rows of the response
get_portal_messages(u, sf, skip, limit, order) ==
    LET rows == SelectSeq(order, LAMBDA m : m \in Filtered(u, sf))
        page == Page(rows, skip, limit)
    IN  [i \in DOMAIN page |-> MessageResponse(u, page[i])]

\* GET /portal/messages: status code of the response
get_portal_messages_response(u, sf) ==
    IF get_current_user_response(u).code # HTTP_200
    THEN get_current_user_response(u).code
    ELSE IF sf \notin MessageStatus \cup {""} THEN HTTP_500
    ELSE HTTP_200

Listing(u, code, items) ==
    [op |-> "messages", email |-> u, code |-> code, items |-> items]

PortalMessages(u, sf, skip, limit, order) ==
    /\ api_resp' = Listing(u, get_portal_messages_response(u, sf),
                           IF get_portal_messages_response(u, sf) = HTTP_200
                           THEN get_portal_messages(u, sf, skip, limit, order)
                           ELSE <<>>)
    /\ users' = get_current_user(u)
    /\ UNCHANGED <<resets, encryption_manager, clients, messages, audit,
                   queue, now, gw, concurrency, running, loop_pc, tasks,
                   deliver_calls, bearer>>

\* POST /admin/certificates/generate called by operator u
PortalGenerate(u, c) ==
    /\ AuditCount("certificate_generated", c) < MaxIssue
    /\ users' = get_current_user(u)
    /\ IF require_admin_response(u).code = HTTP_200
       THEN /\ generate_certificate(c)
            /\ api_resp' = PortalResponse("generate", u,
                               Reply(generate_certificate_response(c), c))
       ELSE /\ UNCHANGED <<clients, audit>>
            /\ api_resp' = PortalResponse("generate", u, require_admin_response(u))
    /\ UNCHANGED <<resets, encryption_manager, messages, queue, now, gw,
                   concurrency, running, loop_pc, tasks,
                   deliver_calls, bearer>>

\* POST /admin/certificates/revoke called by operator u
PortalRevoke(u, c) ==
    /\ users' = get_current_user(u)
    /\ IF require_admin_response(u).code = HTTP_200
       THEN /\ revoke_certificate(c)
            /\ api_resp' = PortalResponse("revoke", u,
                               Reply(revoke_certificate_response(c), c))
       ELSE /\ UNCHANGED <<clients, audit>>
            /\ api_resp' = PortalResponse("revoke", u, require_admin_response(u))
    /\ UNCHANGED <<resets, encryption_manager, messages, queue, now, gw,
                   concurrency, running, loop_pc, tasks,
                   deliver_calls, bearer>>

NextPortal ==
    \/ \E e \in Admins : CliUserCreate(e, "p1", ADMIN, "")
    \/ \E e \in Staff, cid \in Bindings : CliUserCreate(e, "p1", USER, cid)
    \/ \E u \in Emails, e \in Staff, cid \in Bindings :
          CreateUser(u, e, "p1", USER_MANAGER, cid)
    \/ \E e \in Emails : PortalLogin(e, "p1")
    \/ \E m \in MsgIds, c \in PortalClients : ApiRegister(m, c, "b1", FALSE)
    \/ \E u \in Emails, sf \in StatusFilters, skip \in Skips, limit \in Limits,
          order \in Orders :
          PortalMessages(u, sf, skip, limit, order)
    \/ \E u \in Emails, c \in PortalClients : PortalGenerate(u, c)
    \/ \E u \in Emails, c \in PortalClients : PortalRevoke(u, c)

\* Both clients provisioned, no operator and no message yet
InitPortal ==
    /\ InitOther
    /\ clients = [c \in PortalClients |-> Provisioned(c)]
    /\ messages = [m \in MsgIds |-> NoRow]
    /\ audit = EmptyBag
    /\ queue = <<>>
    /\ now = 1
    /\ api_resp = NoResp
    /\ gw = [m \in Uuids |-> "new"]
    /\ concurrency = 1
    /\ running = TRUE
    /\ loop_pc = "pop"
    /\ tasks = [s \in Slots |-> NoTask]

SpecPortal == InitPortal /\ [][NextPortal]_vars

\* The certificate endpoints over two client ids, from an empty clients
\* table, next to registrations on behalf of either client
InitCert ==
    /\ InitOther
    /\ clients = [c \in PortalClients |-> NoClient]
    /\ messages = [m \in MsgIds |-> NoRow]
    /\ audit = EmptyBag
    /\ queue = <<>>
    /\ now = 1
    /\ api_resp = NoResp
    /\ gw = [m \in Uuids |-> "new"]
    /\ concurrency = 1
    /\ running = TRUE
    /\ loop_pc = "pop"
    /\ tasks = [s \in Slots |-> NoTask]

NextCert ==
    \/ \E c \in PortalClients : AdminGenerate(c)
    \/ \E c \in PortalClients : AdminRevoke(c)
    \/ \E m \in MsgIds, c \in PortalClients : ApiRegister(m, c, "b1", FALSE)
    \/ Tick

SpecCert == InitCert /\ [][NextCert]_vars

\* ------------------------------------------------------------------------
\* Delivery worker: Worker.run
\* ------------------------------------------------------------------------
InFlight(ts) == {s \in Slots : ts[s] # NoTask}

NewTask(item) ==
    [pc |-> "process", message |-> item, req |-> NoCall,
     resp |-> NoResponse, sleep_left |-> 0]

\* State the worker never writes
env_vars == <<clients, api_resp, gw, concurrency, other_vars>>

\* Where Worker.run goes once it leaves the loop body
LoopExit(ts) == IF InFlight(ts) # {} THEN "gather" ELSE "stopped"

\* The throttle with > in place of >=
LoopNext_gt(ts, r) ==
    IF Cardinality(InFlight(ts)) > concurrency THEN "throttle"
    ELSE IF r THEN "pop"
    ELSE LoopExit(ts)

\* `while len(processing_tasks) >= concurrency` then `while self.running`
LoopNext(ts, r) ==
    IF Cardinality(InFlight(ts)) >= concurrency THEN "throttle"
    ELSE IF r THEN "pop"
    ELSE LoopExit(ts)

\* BRPOP returned a record: json.loads, create_task, processing_tasks.add
PopMessage ==
    /\ loop_pc = "pop"
    /\ queue # <<>>
    /\ LET s == CHOOSE x \in Slots : tasks[x] = NoTask /\
                    \A y \in Slots : tasks[y] = NoTask => x <= y
           ts == [tasks EXCEPT ![s] = NewTask(brpop_item(queue))]
       IN  /\ tasks' = ts
           /\ loop_pc' = LoopNext(ts, running)
    /\ queue' = brpop_rest(queue)
    /\ UNCHANGED <<messages, audit, now, env_vars, running>>

\* BRPOP timed out (or raised) after stop(): the loop condition fails
PopTimeout ==
    /\ loop_pc = "pop"
    /\ ~running
    /\ loop_pc' = LoopExit(tasks)
    /\ UNCHANGED <<messages, audit, queue, now, env_vars, running, tasks>>

\* asyncio.sleep(0.1) returned with fewer than concurrency tasks in the set
ThrottleWake ==
    /\ loop_pc = "throttle"
    /\ Cardinality(InFlight(tasks)) < concurrency
    /\ loop_pc' = LoopNext(tasks, running)
    /\ UNCHANGED <<messages, audit, queue, now, env_vars, running, tasks>>

\* asyncio.gather returned; finally: processor.cleanup()
GatherDone ==
    /\ loop_pc = "gather"
    /\ InFlight(tasks) = {}
    /\ loop_pc' = "stopped"
    /\ UNCHANGED <<messages, audit, queue, now, env_vars, running, tasks>>

\* Worker.stop (signal handler)
Stop ==
    /\ running
    /\ loop_pc # "stopped"
    /\ running' = FALSE
    /\ UNCHANGED <<messages, audit, queue, now, env_vars, loop_pc, tasks>>

\* The worker process is started again: Worker.__init__, Worker.run
Restart ==
    /\ loop_pc = "stopped"
    /\ running' = TRUE
    /\ loop_pc' = "pop"
    /\ tasks' = [s \in Slots |-> NoTask]
    /\ UNCHANGED <<messages, audit, queue, now, env_vars>>

\* ------------------------------------------------------------------------
\* Delivery worker: one task (Worker._process_message_wrapper)
\* ------------------------------------------------------------------------
\* Tasks run only while Worker.run is suspended in an await
TaskRuns(s) ==
    /\ loop_pc \in {"throttle", "gather"}
    /\ tasks[s] # NoTask

Request(op, s, n) == [op |-> op, status |-> s, attempt_count |-> n]

\* The max-attempts test off by one
MaxAttemptsExceeded_strict(attempt_count) == attempt_count > max_attempts

\* `if attempt_count >= config.max_attempts`
MaxAttemptsExceeded(attempt_count) == attempt_count >= max_attempts

\* `if not success and self.running`
\* The wrapper without its test of self.running
ShouldRetry_always(success, r) == ~success

ShouldRetry(success, r) == ~success /\ r

\* MessageProcessor.process_message, max-attempts branch
ProcessMaxAttempts(s, reached) ==
    /\ TaskRuns(s)
    /\ tasks[s].pc = "process"
    /\ MaxAttemptsExceeded(tasks[s].message.attempt_count)
    /\ LET m == tasks[s].message.message_id
           k == tasks[s].message.attempt_count
       IN  /\ IF reached
              THEN update_message_status(m, FAILED, k, "Exceeded maximum attempts")
              ELSE UNCHANGED <<messages, audit>>
           /\ tasks' = [tasks EXCEPT
                 ![s].pc = "done",
                 ![s].req = Request("update_status", FAILED, k)]
    /\ UNCHANGED <<queue, now, env_vars, running, loop_pc>>

\* MessageProcessor.process_message, delivery branch, and the wrapper's
\* test of the result.  outcome: "ok" the response arrived, "lost" the
\* handler ran and the response did not arrive, "down" the request failed.
ProcessDeliver(s, outcome) ==
    /\ TaskRuns(s)
    /\ tasks[s].pc = "process"
    /\ ~MaxAttemptsExceeded(tasks[s].message.attempt_count)
    /\ LET m == tasks[s].message.message_id
           code == IF outcome = "ok" THEN deliver_response(m) ELSE NoResponse
           success == code = HTTP_200
       IN  /\ IF outcome \in {"ok", "lost"}
              THEN deliver_message(m)
              ELSE UNCHANGED <<messages, audit>>
           /\ tasks' = [tasks EXCEPT
                 ![s].pc = IF ShouldRetry(success, running)
                           THEN "retry" ELSE "done",
                 ![s].req = Request("deliver", "", 0),
                 ![s].resp = code]
           /\ deliver_calls' = [deliver_calls EXCEPT ![m] = @ + 1]
    /\ UNCHANGED <<queue, now, clients, api_resp, gw, concurrency, users,
                   resets, encryption_manager, bearer, running, loop_pc>>

\* MessageProcessor.handle_retry up to the sleep
HandleRetryUpdate(s, reached) ==
    /\ TaskRuns(s)
    /\ tasks[s].pc = "retry"
    /\ LET m == tasks[s].message.message_id
           k == tasks[s].message.attempt_count + 1
       IN  /\ IF reached
              THEN update_message_status(m, QUEUED, k, "Retry attempt")
              ELSE UNCHANGED <<messages, audit>>
           /\ tasks' = [tasks EXCEPT
                 ![s].pc = "sleep",
                 ![s].message.attempt_count = k,
                 ![s].req = Request("update_status", QUEUED, k),
                 ![s].sleep_left = retry_interval]
    /\ UNCHANGED <<queue, now, env_vars, running, loop_pc>>

\* MessageProcessor.handle_retry after the sleep: push_message
HandleRetryPush(s, ok) ==
    /\ TaskRuns(s)
    /\ tasks[s].pc = "sleep"
    /\ tasks[s].sleep_left = 0
    /\ queue' = IF ok THEN lpush(queue, tasks[s].message) ELSE queue
    /\ tasks' = [tasks EXCEPT ![s].pc = "done"]
    /\ UNCHANGED <<messages, audit, now, env_vars, running, loop_pc>>

\* done callback: processing_tasks.discard
Discard(s) ==
    /\ TaskRuns(s)
    /\ tasks[s].pc = "done"
    /\ tasks' = [tasks EXCEPT ![s] = NoTask]
    /\ UNCHANGED <<messages, audit, queue, now, env_vars, running, loop_pc>>

Next ==
    \/ \E m \in Uuids, req \in Requests, outcome \in EnqueueOutcomes :
          SubmitEnqueue(m, req, outcome)
    \/ \E m \in Uuids, c \in ClientIds, body \in GwBodies,
          reached \in BOOLEAN, pushed \in BOOLEAN :
          SubmitRegister(m, c, body, reached, pushed)
    \/ PopMessage
    \/ PopTimeout
    \/ ThrottleWake
    \/ GatherDone
    \/ Stop
    \/ Restart
    \/ \E s \in Slots, reached \in BOOLEAN : ProcessMaxAttempts(s, reached)
    \/ \E s \in Slots, outcome \in {"ok", "lost", "down"} :
          ProcessDeliver(s, outcome)
    \/ \E s \in Slots, reached \in BOOLEAN : HandleRetryUpdate(s, reached)
    \/ \E s \in Slots, ok \in BOOLEAN : HandleRetryPush(s, ok)
    \/ \E s \in Slots : Discard(s)
    \/ Tick

Spec == Init /\ [][Next]_vars

\* ------------------------------------------------------------------------
\* The worker alone, on a message that entered the queue once
\* ------------------------------------------------------------------------
\* The gateway has pushed the one record of its submission and answered 202;
\* the registry has the row (registered with its own queue connection
\* missing) or does not have it (the Register call failed)
InitWorker ==
    /\ InitOther
    /\ clients = [c \in ClientIds |-> NewClient]
    /\ \E registered \in BOOLEAN :
          /\ messages = [m \in MsgIds |->
                            IF registered /\ m \in Uuids
                            THEN NewMessage(CHOOSE c \in ClientIds : TRUE, "b1")
                            ELSE NoRow]
          /\ audit = IF registered
                     THEN SetToBag({AuditEntry("message_registered", m) : m \in Uuids})
                     ELSE EmptyBag
    /\ queue = <<QueueItem(CHOOSE m \in Uuids : TRUE, 0)>>
    /\ now = 1
    /\ api_resp = NoResp
    /\ gw = [m \in Uuids |-> HTTP_202]
    /\ concurrency \in 1..MaxConcurrency
    /\ running = TRUE
    /\ loop_pc = "pop"
    /\ tasks = [s \in Slots |-> NoTask]

NextWorker ==
    \/ PopMessage
    \/ PopTimeout
    \/ ThrottleWake
    \/ GatherDone
    \/ Stop
    \/ Restart
    \/ \E s \in Slots, reached \in BOOLEAN : ProcessMaxAttempts(s, reached)
    \/ \E s \in Slots, outcome \in {"ok", "lost", "down"} :
          ProcessDeliver(s, outcome)
    \/ \E s \in Slots, reached \in BOOLEAN : HandleRetryUpdate(s, reached)
    \/ \E s \in Slots, ok \in BOOLEAN : HandleRetryPush(s, ok)
    \/ \E s \in Slots : Discard(s)
    \/ Tick

SpecWorker == InitWorker /\ [][NextWorker]_vars

\* ------------------------------------------------------------------------
\* The pipeline without shutdown, under fair scheduling
\* ------------------------------------------------------------------------
NextLive ==
    \/ \E m \in Uuids, req \in Requests, outcome \in EnqueueOutcomes :
          SubmitEnqueue(m, req, outcome)
    \/ \E m \in Uuids, c \in ClientIds, body \in GwBodies,
          reached \in BOOLEAN, pushed \in BOOLEAN :
          SubmitRegister(m, c, body, reached, pushed)
    \/ PopMessage
    \/ ThrottleWake
    \/ \E s \in Slots, reached \in BOOLEAN : ProcessMaxAttempts(s, reached)
    \/ \E s \in Slots, outcome \in {"ok", "lost", "down"} :
          ProcessDeliver(s, outcome)
    \/ \E s \in Slots, reached \in BOOLEAN : HandleRetryUpdate(s, reached)
    \/ \E s \in Slots, ok \in BOOLEAN : HandleRetryPush(s, ok)
    \/ \E s \in Slots : Discard(s)
    \/ Tick

\* The event loop runs every step that is ready (weak fairness); registry
\* and queue are available again and again, so a call that is made again and
\* again gets through (strong fairness of the steps whose call succeeds)
Fairness ==
    /\ WF_vars(PopMessage)
    /\ WF_vars(ThrottleWake)
    /\ WF_vars(Tick)
    /\ WF_vars(\E s \in Slots : Discard(s))
    /\ SF_vars(\E s \in Slots : ProcessDeliver(s, "ok"))
    /\ SF_vars(\E s \in Slots : ProcessMaxAttempts(s, TRUE))
    /\ SF_vars(\E s \in Slots : HandleRetryUpdate(s, TRUE))
    /\ SF_vars(\E s \in Slots : HandleRetryPush(s, TRUE))

SpecLive == Init /\ [][NextLive]_vars /\ Fairness

\* ------------------------------------------------------------------------
\* Properties
\* ------------------------------------------------------------------------
Exists(m) == messages[m] # NoRow

\* C1: for every message_id at most one Deliver call is confirmed by the
\* registry, whatever the worker retries: the audit log holds at most one
\* message_delivered entry for it.
C1_AtMostOneConfirmedDelivery ==
    \A m \in MsgIds : AuditCount("message_delivered", m) <= 1

\* C2: a Register call for a message_id that already has a row fails and
\* has no side effects: the rows (status, attempt count, ciphertext), the
\* audit log and the queue are left as they were, so one row and one
\* message_registered entry exist for the id.
C2_DuplicateRegisterRejected ==
    [][\A m \in MsgIds, c \in ClientIds, body \in Bodies, pushed \in BOOLEAN :
          (Exists(m) /\ ApiRegister(m, c, body, pushed))
             => /\ api_resp'.code # HTTP_200
                /\ messages' = messages
                /\ audit' = audit
                /\ queue' = queue
                /\ AuditCount("message_registered", m) = 1]_vars

\* C2 witness: a repeated Register was answered with an error while the row
\* of the first call, registered with another body, is in place.
C2_Witness ==
    \E m \in MsgIds :
        /\ api_resp = Response("register", m, HTTP_500)
        /\ Exists(m)
        /\ messages[m].encrypted_body = encrypt_message("b2")[1]
        /\ AuditCount("message_registered", m) = 1

\* C3: Deliver succeeds only on a QUEUED or PROCESSING message; on a
\* DELIVERED or FAILED one it fails and leaves status and delivered_at as
\* they were.
C3_DeliverRejectsTerminal ==
    [][\A m \in MsgIds :
          (Exists(m) /\ messages[m].status \in {DELIVERED, FAILED}
                     /\ ApiDeliver(m))
             => /\ api_resp'.code # HTTP_200
                /\ messages'[m].status = messages[m].status
                /\ messages'[m].delivered_at = messages[m].delivered_at]_vars

\* C4: every message whose status is DELIVERED has a non-null delivered_at.
C4_DeliveredHasTimestamp ==
    \A m \in MsgIds :
        messages[m].status = DELIVERED => messages[m].delivered_at # Null

C6_AttemptCountMonotonic ==
    [][\A m \in MsgIds :
          Exists(m) => messages'[m].attempt_count >= messages[m].attempt_count]_vars

\* C7: a task whose Deliver was answered 404 (the message_id is not in the
\* registry) drops its item: it ends right there, with the Deliver as the
\* last request it sent, so no UpdateStatus is issued and nothing is pushed.
C7_OrphanDropped ==
    \A s \in Slots :
        tasks[s].resp = HTTP_404
           => tasks[s].pc = "done" /\ tasks[s].req.op = "deliver"

\* C8: a task that starts on an item with attempt_count >= max_attempts sends
\* one request, UpdateStatus(FAILED, attempt_count), and ends: no Deliver is
\* made (no message_delivered entry appears), the item keeps its attempt
\* count and the queue receives nothing.
C8_MaxAttemptsFails ==
    [][\A s \in Slots :
          (/\ tasks[s].pc = "process"
           /\ tasks[s].message.attempt_count >= max_attempts
           /\ tasks'[s] # tasks[s])
             => /\ tasks'[s].pc = "done"
                /\ tasks'[s].req = Request("update_status", FAILED,
                                           tasks[s].message.attempt_count)
                /\ tasks'[s].message = tasks[s].message
                /\ audit' = audit
                /\ queue' = queue]_vars

\* C8 witness: a task has ended after sending UpdateStatus(FAILED,
\* max_attempts) for an item that a retry brought up to max_attempts.
C8_Witness ==
    \E s \in Slots :
        /\ tasks[s].pc = "done"
        /\ tasks[s].message.attempt_count = max_attempts
        /\ tasks[s].req = Request("update_status", FAILED, max_attempts)

InQueue(q, m) == \E i \in 1..Len(q) : q[i].message_id = m

C10_NoItemLostByShutdown ==
    [][\A s \in Slots :
          (/\ ~running
           /\ tasks[s].pc \in {"process", "retry", "sleep"}
           /\ tasks'[s].pc = "done")
             => LET m == tasks[s].message.message_id
                IN  \/ messages'[m].status \notin {QUEUED, PROCESSING}
                    \/ InQueue(queue', m)]_vars

\* C11: after stop() the worker schedules no new retry: a task that observes
\* its delivery failing while running is False ends without an
\* UpdateStatus(QUEUED) call and without pushing its item back, and an ended
\* task does nothing more than leave the task set.
C11_NoRetryAfterStop ==
    [][\A s \in Slots :
          /\ (/\ ~running
              /\ tasks[s].pc = "process"
              /\ tasks'[s].pc # "process"
              /\ tasks'[s].req.op = "deliver"
              /\ tasks'[s].resp # HTTP_200)
                => /\ tasks'[s].pc = "done"
                   /\ queue' = queue
          /\ (tasks[s].pc = "done" /\ tasks'[s] # tasks[s])
                => /\ tasks'[s] = NoTask
                   /\ queue' = queue
                   /\ messages' = messages]_vars

\* A stopped worker holds an ended task whose delivery failed
C11_Witness ==
    \E s \in Slots :
        /\ ~running
        /\ tasks[s].pc = "done"
        /\ tasks[s].req.op = "deliver"
        /\ tasks[s].resp # HTTP_200

\* C12: the number of in-flight tasks (sleeping ones included) never exceeds
\* config.concurrency, and the task set grows, i.e. the loop pops a record,
\* only from a state with fewer than config.concurrency tasks in flight.
C12_BoundedConcurrency ==
    [][/\ Cardinality(InFlight(tasks')) <= concurrency'
       /\ Cardinality(InFlight(tasks')) > Cardinality(InFlight(tasks))
             => /\ Cardinality(InFlight(tasks)) < concurrency
                /\ Len(queue') = Len(queue) - 1
       /\ Cardinality(InFlight(tasks)) >= concurrency
             => Len(queue') >= Len(queue)]_vars

\* The loop is stalled with config.concurrency tasks in flight, one of them
\* waiting out the retry interval, while a record waits in the queue
C12_Witness ==
    /\ Cardinality(InFlight(tasks)) = concurrency
    /\ loop_pc = "throttle"
    /\ queue # <<>>
    /\ \E s \in Slots : tasks[s].pc = "sleep"

\* Number of queue records that carry message id m
QueueCount(q, m) == Cardinality({i \in 1..Len(q) : q[i].message_id = m})

\* The CN a request presents to the gateway
RequestCN(req) == extract_client_certificate(req).common_name

C14_RevokedClientRejected ==
    [][\A m \in MsgIds, req \in Requests, outcome \in EnqueueOutcomes :
          (/\ req.peer_cert
           /\ RequestCN(req) \in ClientIds
           /\ clients[RequestCN(req)].status = REVOKED
           /\ ValidSubmission(req)
           /\ SubmitEnqueue(m, req, outcome))
             => /\ gw'[m] = HTTP_401
                /\ queue' = queue]_vars

\* C15: a valid submission that carries no verified peer certificate is
\* answered 401 and pushes nothing, whatever identity its header or its
\* query parameter supplies.
C15_NoCertificateRejected ==
    [][\A m \in MsgIds, req \in Requests, outcome \in EnqueueOutcomes :
          (/\ ~req.peer_cert
           /\ ValidSubmission(req)
           /\ SubmitEnqueue(m, req, outcome))
             => /\ gw'[m] = HTTP_401
                /\ queue' = queue]_vars

\* C16: within one rate_limit_window the gateway answers 202 to at most
\* rate_limit_requests submissions of a client (the model has one client).
C16_RateLimited ==
    now - 1 < rate_limit_window
        => Cardinality({m \in DOMAIN gw : gw[m] = HTTP_202})
              <= rate_limit_requests

\* C17: a submission whose sender_number or message_body fails validation
\* is rejected, pushes no record and changes nothing in the registry, and
\* its rejection is final (Register is never called for it).
InvalidRequests ==
    {req \in Requests : ~(/\ validate_phone_number(req.sender_number)
                          /\ validate_message_body(req.message_body))}

C17_InvalidPayloadNoEffect ==
    [][\A m \in DOMAIN gw :
          \* a step that answers a submission otherwise is the step of no
          \* invalid request
          /\ (gw[m] = "new" /\ gw'[m] \notin {"new", HTTP_422})
                => \A req \in InvalidRequests, outcome \in EnqueueOutcomes :
                      ~SubmitEnqueue(m, req, outcome)
          \* the rejection has no effect
          /\ (gw[m] = "new" /\ gw'[m] = HTTP_422)
                => /\ queue' = queue
                   /\ messages' = messages
                   /\ audit' = audit
          \* and is final
          /\ gw[m] = HTTP_422
                => /\ gw'[m] = HTTP_422
                   /\ messages'[m] = messages[m]
                   /\ QueueCount(queue', m) = QueueCount(queue, m)]_vars

\* A submission was rejected by validation
C17_Witness ==
    \E m \in DOMAIN gw :
        gw[m] = HTTP_422 /\ QueueCount(queue, m) = 0 /\ ~Exists(m)

\* C18: a submission answered 503 because its push failed leaves no queue
\* record and no registry row.
C18_FailedPushLeavesNothing ==
    \A m \in DOMAIN gw :
        gw[m] = HTTP_503 => QueueCount(queue, m) = 0 /\ ~Exists(m)

\* C19: once the push has succeeded the gateway answers 202 whether or not
\* the Register call succeeds; when it fails the record stays in the queue
\* and the registry is left as it was, and after the 202 the gateway makes
\* no further registration attempt.
C19_AcceptedWithoutRegistration ==
    [][\A m \in DOMAIN gw :
          /\ (gw[m] = "enqueued" /\ gw'[m] # gw[m])
                => /\ gw'[m] = HTTP_202
                   /\ QueueCount(queue', m) >= QueueCount(queue, m)
                   /\ ~Exists(m)' => (queue' = queue /\ messages' = messages)
          /\ gw[m] = HTTP_202
                => /\ gw'[m] = HTTP_202
                   /\ Exists(m)' = Exists(m)]_vars

\* A submission was answered 202 with its record in the queue and no row
C19_Witness ==
    \E m \in DOMAIN gw :
        gw[m] = HTTP_202 /\ ~Exists(m) /\ QueueCount(queue, m) = 1

\* C20: REVOKED is terminal for a client row: no step changes the row, and
\* a revoke of a REVOKED client is answered 400 (already revoked).
C20_RevokedIsTerminal ==
    [][\A c \in ClientIds :
          clients[c].status = REVOKED
             => /\ clients'[c] = clients[c]
                /\ AdminRevoke(c)
                      => api_resp' = Response("revoke", c, HTTP_400)]_vars

\* A revoked client was issued a certificate again and revoked again
C20_Witness ==
    \E c \in ClientIds :
        /\ clients[c].status = REVOKED
        /\ AuditCount("certificate_generated", c) = MaxIssue
        /\ api_resp = Response("revoke", c, HTTP_400)
        /\ clients[c].revoked_at # <<now>>

\* C21: generating a certificate for a client_id whose row is ACTIVE is
\* answered 400 and changes neither the clients table nor the audit log.
\* (The table holds one row per client_id: clients.client_id is unique.)
C21_ActiveClientNotRegisteredAgain ==
    [][\A c \in DOMAIN clients :
          (clients[c].status = ACTIVE /\ AdminGenerate(c))
             => /\ api_resp' = Response("generate", c, HTTP_400)
                /\ clients' = clients
                /\ audit' = audit]_vars

\* A generate request for an ACTIVE client was refused
C21_Witness ==
    \E c \in DOMAIN clients :
        /\ clients[c].status = ACTIVE
        /\ api_resp = Response("generate", c, HTTP_400)
        /\ AuditCount("certificate_generated", c) = 1

\* C29: after UpdateStatus(m, FAILED, n, err) is answered 200 the row's
\* error_message is the supplied err.
C29_FailureErrorPersisted ==
    [][\A m \in MsgIds, n \in 0..MaxCount, err \in ErrorTexts :
          (/\ update_status_response(m, FAILED, n) = HTTP_200
           /\ ApiUpdateStatus(m, FAILED, n, err))
             => messages'[m].error_message = <<err>>]_vars

\* C27: whatever keys were added and whichever version was made current
\* since, decrypt_message with the version that encrypt_message returned
\* gives back the body.
C27_RotationKeepsReadable ==
    (api_resp.op = "crypto" /\ api_resp.read_version = api_resp.version)
        => api_resp.read = [ok |-> TRUE, value |-> api_resp.plaintext]

\* C28: decrypt_message with any version other than the one returned by
\* encrypt_message raises; it returns no plaintext.
C28_WrongVersionFails ==
    (api_resp.op = "crypto" /\ api_resp.read_version \notin {0, api_resp.version})
        => api_resp.read = DecryptError

\* C22: a failed login is answered alike for an unknown email and for a
\* known email with a wrong password: same status code, same body.
C22_LoginFailureIndistinguishable ==
    \A e1, e2 \in Emails, pw \in Passwords :
        (/\ users[e1] = NoUser
         /\ users[e2] # NoUser
         /\ ~verify_password(pw, users[e2].password_hash))
            => portal_login_response(e1, pw) = portal_login_response(e2, pw)

C22_Witness ==
    \E e1, e2 \in Emails :
        /\ users[e1] = NoUser
        /\ users[e2] # NoUser
        /\ api_resp = PortalResponse("login", e2,
                          Reply(HTTP_401, "Incorrect email or password"))

C30_ValidTicketRedeemed ==
    [][\A t \in Tokens, pw \in Passwords :
          (/\ resets[t] # NoReset
           /\ resets[t].used_at = Null
           /\ now < resets[t].expires_at
           /\ ResetPassword(t, pw))
             => /\ api_resp'.code = HTTP_200
                /\ users'[resets[t].user_id].password_hash = get_password_hash(pw)
                /\ resets'[t].used_at # Null
                /\ BagCardinality(audit') = BagCardinality(audit) + 1]_vars

\* C26: the audit log is append-only: every entry is still there after every
\* step, and an entry whose operator is deleted in the step is kept with its
\* operator reference null.
Nulled(x) == [x EXCEPT !.user_id = Null]
C26_AuditAppendOnly ==
    [][\A x \in DOMAIN audit :
          IF \E u \in Emails : x.user_id = <<u>> /\ users'[u] = NoUser
          THEN CopiesIn(Nulled(x), audit')
                  >= CopiesIn(x, audit) + CopiesIn(Nulled(x), audit)
          ELSE CopiesIn(x, audit') >= CopiesIn(x, audit)]_vars

\* C24: the listing served to an operator with role USER holds only
\* messages of the client the operator is bound to, and nothing when the
\* operator is bound to no client, for every status filter and paging.
C24_UserSeesOwnClientOnly ==
    [][\A u \in Emails :
          (/\ api_resp'.op = "messages"
           /\ users[u] # NoUser
           /\ users[u].role = USER
           /\ \E sf \in StatusFilters, skip \in Skips, limit \in Limits,
                 order \in Orders :
                 PortalMessages(u, sf, skip, limit, order))
             => \A i \in DOMAIN api_resp'.items :
                   /\ users[u].client_id # ""
                   /\ api_resp'.items[i].client_id = users[u].client_id]_vars

C24_Witness ==
    /\ api_resp.op = "messages"
    /\ api_resp.items # <<>>
    /\ users[api_resp.email].role = USER
    /\ \E m \in MsgIds : /\ messages[m] # NoRow
                         /\ messages[m].client_id # users[api_resp.email].client_id

\* C25: an operator with role USER_MANAGER is served no message and cannot
\* generate or revoke a client certificate, whatever client the operator
\* record is bound to.
C25_UserManagerServedNothing ==
    [][\A u \in Emails :
          (users[u] # NoUser /\ users[u].role = USER_MANAGER)
             => /\ (/\ api_resp'.op = "messages"
                    /\ \E sf \in StatusFilters, skip \in Skips,
                          limit \in Limits, order \in Orders :
                          PortalMessages(u, sf, skip, limit, order))
                      => api_resp'.items = <<>>
                /\ \A c \in PortalClients :
                      (PortalGenerate(u, c) \/ PortalRevoke(u, c))
                         => /\ clients' = clients
                            /\ audit' = audit
                            /\ api_resp'.code \in {HTTP_401, HTTP_403}]_vars

\* C31: UpdateStatus with a valid status on an existing message succeeds
\* whatever the current status and leaves status = s, attempt_count = n; for
\* an unknown message_id or an unknown status value it fails and changes
\* nothing.
C31_UpdateStatusUnconditional ==
    [][api_resp'.op = "update_status" =>
          \A m \in MsgIds, s \in MessageStatus \cup {"bogus"}, n \in 0..MaxCount,
             err \in ErrorTexts :
             ApiUpdateStatus(m, s, n, err) =>
                IF messages[m] # NoRow /\ s \in MessageStatus
                THEN /\ api_resp'.code = HTTP_200
                     /\ messages'[m].status = s
                     /\ messages'[m].attempt_count = n
                ELSE /\ api_resp'.code \in {HTTP_404, HTTP_500}
                     /\ messages' = messages]_vars

C31_Witness ==
    \E m \in MsgIds :
        /\ api_resp = Response("update_status", m, HTTP_200)
        /\ messages[m].delivered_at # Null
        /\ messages[m].status = QUEUED

E164(v) ==
    /\ Len(v) >= 3
    /\ Len(v) <= 16
    /\ v[1] = "+"
    /\ v[2] \in Digits \ {"0"}
    /\ \A i \in 3..Len(v) : v[i] \in Digits

C33_SenderNumberFormat ==
    [][\A m \in DOMAIN gw :
          (gw[m] = "new" /\ gw'[m] # "new")
             => \A req \in Requests, outcome \in EnqueueOutcomes :
                   (validate_message_body(req.message_body)
                      /\ SubmitEnqueue(m, req, outcome))
                        => (gw'[m] # HTTP_422 <=> E164(req.sender_number))]_vars

\* C35: each message_id is held in at most one place at any moment: its
\* records in the queue plus the worker tasks still working on it number at
\* most one.
Holding(ts, m) ==
    {s \in Slots : ts[s] # NoTask /\ ts[s].pc # "done"
                                  /\ ts[s].message.message_id = m}

C37_NeverProcessing ==
    \A m \in MsgIds :
        Exists(m) => messages[m].status \in {QUEUED, DELIVERED, FAILED}

C37_Witness ==
    \E m \in MsgIds, s \in Slots :
        /\ Exists(m)
        /\ tasks[s] # NoTask
        /\ tasks[s].message.message_id = m
        /\ tasks[s].req = Request("update_status", QUEUED, 1)
        /\ messages[m].attempt_count = 1

\* C36: a Deliver call is made only for an item whose attempt_count is below
\* max_attempts, and a message that entered the queue once with
\* attempt_count 0 gets at most max_attempts Deliver calls in all.
C36_DeliverCallsBounded ==
    [][\A m \in Uuids :
          /\ deliver_calls'[m] <= max_attempts
          /\ deliver_calls'[m] # deliver_calls[m]
                => \E s \in Slots :
                      /\ tasks[s] # NoTask
                      /\ tasks[s].pc = "process"
                      /\ tasks'[s].pc # "process"
                      /\ tasks[s].message.message_id = m
                      /\ tasks[s].message.attempt_count < max_attempts]_vars

C36_Witness ==
    \E m \in Uuids, s \in Slots :
        /\ deliver_calls[m] = max_attempts
        /\ tasks[s] # NoTask
        /\ tasks[s].message = QueueItem(m, max_attempts)
        /\ tasks[s].req = Request("update_status", FAILED, max_attempts)

\* C34: with fair scheduling, registry and queue available again and again
\* and no shutdown, every message whose submission was answered 202 and
\* whose registration succeeded eventually is DELIVERED or FAILED.
C34_AcceptedEventuallyTerminal ==
    \A m \in Uuids :
        (gw[m] = HTTP_202 /\ Exists(m))
            ~> (Exists(m) /\ messages[m].status \in {DELIVERED, FAILED})

\* C38: a Register call that returns failure has created no message row,
\* and every row has its message_registered audit entry.
C38_RegisterAtomic ==
    [][/\ (api_resp'.op = "register" /\ api_resp'.code # HTTP_200)
             => messages' = messages
       /\ \A m \in MsgIds :
             messages'[m] # NoRow
                => CopiesIn(AuditEntry("message_registered", m), audit') >= 1]_vars

\* C39: a refresh token presented as the bearer credential on an operator
\* endpoint is rejected.
C39_RefreshTokenRejected ==
    [][\A u \in Emails :
          (bearer[u] # NoTokens /\ GetProfile(u, "refresh_token"))
             => api_resp'.code = HTTP_401]_vars

\* C40: a generate-certificate request for a client_id that has no client
\* record creates an ACTIVE record for it and succeeds, whichever other
\* client records exist.
C40_GenerateForNewClientSucceeds ==
    [][\A c \in PortalClients :
          (clients[c] = NoClient /\ AdminGenerate(c))
             => /\ api_resp'.code = HTTP_200
                /\ clients'[c].status = ACTIVE]_vars

====
